---- MODULE Spec2Model ----
(***************************************************************************)
(* Model of the chart subsystem of mldb (apps/chart/charts.py): DataPoint, *)
(* DataSet, DataMatrix and its views, and the geometry computed by the     *)
(* chart renderers.                                                        *)
(*                                                                         *)
(* Numbers: the Python code computes in floats.  The model computes in     *)
(* exact rationals <<n, d>> (d > 0, lowest terms), so that a ratio such as *)
(* value / total is a value the checks can compare.  Angles are kept in    *)
(* turns: the code's angle is 2 * pi times the model's angle.              *)
(***************************************************************************)
EXTENDS Integers, Sequences, FiniteSets, TLC

VARIABLES
    data_set,   \* the DataSet the caller builds: [label, data]
    given,      \* history: the points handed to DataSet(...) and to append, in order
    view,       \* the matrix view handed to the charts
    options,    \* the RenderOptions object handed to the charts
    input,      \* the call a caller is about to make: the function and its arguments
    resources,  \* Page.resources, the list that is an attribute of the class Page
    out         \* what the last operation returned

vars == <<data_set, given, view, options, input, resources, out>>

----------------------------------------------------------------------------
(* Bounds of the model *)

MaxLen == 3         \* longest DataSet
MaxRows == 2        \* most rows of a DataMatrix
MaxCols == 2        \* most columns of a DataMatrix

Values == {-1, 0, 1, 2, 5, 10}      \* values a DataPoint is given
MatrixValues == {0, 1}              \* values a DataMatrix cell is given
Labels == {"a"}                     \* MetaData of a point handed to the DataSet
ViewLabels == {"a", "b"}            \* MetaData of a point of a DataSet behind a view
Paddings == {0, 10}                 \* padding handed to a chart
Widths == {100}                     \* width and height handed to a template tag

----------------------------------------------------------------------------
(* Exact arithmetic standing for the code's float arithmetic *)

Abs(n) == IF n < 0 THEN -n ELSE n

RECURSIVE GCD(_, _)
GCD(a, b) == IF b = 0 THEN a ELSE GCD(b, a % b)

Frac(n, d) ==
    LET g == GCD(Abs(n), Abs(d))
        s == IF d < 0 THEN -1 ELSE 1
    IN  <<(s * n) \div g, (s * d) \div g>>

RInt(n) == <<n, 1>>
RAdd(a, b) == Frac(a[1] * b[2] + b[1] * a[2], a[2] * b[2])
RSub(a, b) == Frac(a[1] * b[2] - b[1] * a[2], a[2] * b[2])
RMul(a, b) == Frac(a[1] * b[1], a[2] * b[2])
RDiv(a, b) == Frac(a[1] * b[2], a[2] * b[1])
RLe(a, b) == a[1] * b[2] <= b[1] * a[2]
RLt(a, b) == a[1] * b[2] < b[1] * a[2]
RMin(a, b) == IF RLe(a, b) THEN a ELSE b

Zero == RInt(0)
One == RInt(1)
Half == Frac(1, 2)

\* the indices of a sequence, in order
Range(n) == [i \in 1..n |-> i]

\* builtin sum() and max() over a sequence of integers
RECURSIVE sum(_)
sum(s) == IF s = <<>> THEN 0 ELSE Head(s) + sum(Tail(s))

RECURSIVE max(_)
max(s) == IF Len(s) = 1 THEN Head(s)
          ELSE LET m == max(Tail(s)) IN IF Head(s) >= m THEN Head(s) ELSE m

----------------------------------------------------------------------------
(* MetaData, DataPoint, DataSet *)

DataPoint(value, label) == [value |-> value, label |-> label]

DataPoints == [value : Values, label : Labels]

DataSet(pts, label) == [label |-> label, data |-> pts]

\* the division without float(): Python 2 divides two ints rounding down
normalized_floor(point, m) == IF m # 0 THEN RInt(point.value \div m) ELSE One

\* DataPoint.normalized(max): float(value) / max if max else 1
normalized(point, m) == IF m # 0 THEN Frac(point.value, m) ELSE One

PointValues(ds) == [i \in 1..Len(ds.data) |-> ds.data[i].value]

\* a running maximum that starts from 0
max_value_from_zero(ds) == max(<<0>> \o PointValues(ds))

\* DataSet.max_value
max_value(ds) == IF ds.data # <<>> THEN max(PointValues(ds)) ELSE 0

\* a sum that starts from the second point
total_from_second(ds) == IF ds.data = <<>> THEN 0 ELSE sum(Tail(PointValues(ds)))

\* DataSet.total
total(ds) == sum(PointValues(ds))

\* DataSet.append
append(ds, point) == [ds EXCEPT !.data = Append(ds.data, point)]

----------------------------------------------------------------------------
(* Geometry *)

SvgPoint(x, y) == [x |-> x, y |-> y]

SvgRect(x, y, width, height) == [x |-> x, y |-> y, width |-> width, height |-> height]

\* SvgRect.center
center(rect) == SvgPoint(RAdd(rect.x, RDiv(rect.width, RInt(2))),
                         RAdd(rect.y, RDiv(rect.height, RInt(2))))

\* ChartBase.__init__: the rect shrunk by the padding on every side
ChartBase(rect, padding, norm) ==
    [normalized |-> norm,
     rect |-> SvgRect(RAdd(rect.x, RInt(padding)),
                      RAdd(rect.y, RInt(padding)),
                      RSub(rect.width, RInt(padding * 2)),
                      RSub(rect.height, RInt(padding * 2)))]

\* the mapping without the flip of the Y axis
point_rel2abs_noflip(self, point) ==
    SvgPoint(RAdd(self.rect.x, RMul(self.rect.width, point.x)),
             RAdd(self.rect.y, RMul(self.rect.height, point.y)))

\* ChartBase.point_rel2abs
point_rel2abs(self, point) ==
    SvgPoint(RAdd(self.rect.x, RMul(self.rect.width, point.x)),
             RAdd(self.rect.y, RMul(self.rect.height, RSub(One, point.y))))

\* the mapping of a rect without the flip of the Y axis
rect_rel2abs_noflip(self, rect) ==
    SvgRect(RAdd(self.rect.x, RMul(rect.x, self.rect.width)),
            RAdd(self.rect.y, RMul(rect.y, self.rect.height)),
            RMul(rect.width, self.rect.width),
            RMul(rect.height, self.rect.height))

\* ChartBase.rect_rel2abs
rect_rel2abs(self, rect) ==
    LET height == RMul(rect.height, self.rect.height)
    IN  SvgRect(RAdd(self.rect.x, RMul(rect.x, self.rect.width)),
                RSub(RSub(RAdd(self.rect.y, self.rect.height),
                          RMul(rect.y, self.rect.height)), height),
                RMul(rect.width, self.rect.width),
                height)

\* ChartBase.format_title: the label, the value and, for a normalized chart,
\* the ratio that is printed as a percentage
format_title(self, point, tot) ==
    IF ~self.normalized
    THEN [label |-> point.label, value |-> point.value]
    ELSE [label |-> point.label, value |-> point.value,
          percent |-> normalized(point, tot)]

\* ChartBase.template_tag: the rect a tag builds from width and height
TagRect(width, height) == SvgRect(Zero, Zero, RInt(width), RInt(height))

----------------------------------------------------------------------------
(* PieChart *)

AngleStarts == {Zero, Frac(-1, 4)}  \* angle_start handed to a PieChart, in turns

\* PieChart.__init__
PieChart(rect, padding, angle_start) ==
    LET base == ChartBase(rect, padding, TRUE)
    IN  [normalized |-> base.normalized,
         rect |-> base.rect,
         radius |-> RDiv(RMin(base.rect.width, base.rect.height), RInt(2)),
         center |-> center(base.rect),
         angle_start |-> angle_start]

\* angle_delta of a point, in turns
PieAngleDelta(point, tot) == normalized(point, tot)

\* the value of `angle` when the loop of PieChart.render reaches point i
RECURSIVE PieAngle(_, _, _)
PieAngle(self, ds, i) ==
    IF i = 1 THEN self.angle_start
    ELSE RAdd(PieAngle(self, ds, i - 1),
              PieAngleDelta(ds.data[i - 1], total(ds)))

\* PieChart.render: one slice per point, in input order
PieChart_render(self, ds) ==
    [i \in 1..Len(ds.data) |->
        LET point == ds.data[i]
            angle == PieAngle(self, ds, i)
            angle_delta == PieAngleDelta(point, total(ds))
        IN  [center |-> self.center,
             radius |-> self.radius,
             from |-> angle,
             to |-> RAdd(angle, angle_delta),
             angle_delta |-> angle_delta,
             large_arc |-> IF RLt(Half, angle_delta) THEN 1 ELSE 0,
             title |-> format_title(self, point, total(ds))]]

----------------------------------------------------------------------------
(* DataMatrix and the matrix views.  Indices are 1-based in the model,    *)
(* 0-based in the code.  A list of MetaData is the list of its ctor_args. *)

DataMatrix(rows, columns, values) == [rows |-> rows, columns |-> columns, values |-> values]

MatrixView(data_matrix) == [kind |-> "MatrixView", data_matrix |-> data_matrix]

TransposedMatrixView(data_matrix) ==
    [kind |-> "TransposedMatrixView", data_matrix |-> data_matrix]

MatrixViewSingleRecord(ds) == [kind |-> "MatrixViewSingleRecord", data_set |-> ds]

MatrixViewSingleItem(ds) == [kind |-> "MatrixViewSingleItem", data_set |-> ds]

\* the MetaData of the points of a DataSet, as iterating the DataSet gives them
PointMeta(ds) == [i \in 1..Len(ds.data) |-> ds.data[i].label]

\* records without the override of TransposedMatrixView
records_not_overridden(v) ==
    CASE v.kind \in {"MatrixView", "TransposedMatrixView"} -> v.data_matrix.rows
      [] v.kind = "MatrixViewSingleRecord" -> <<v.data_set.label>>
      [] v.kind = "MatrixViewSingleItem" -> PointMeta(v.data_set)

\* MatrixView.records and its overrides
records(v) ==
    CASE v.kind = "MatrixView" -> v.data_matrix.rows
      [] v.kind = "TransposedMatrixView" -> v.data_matrix.columns
      [] v.kind = "MatrixViewSingleRecord" -> <<v.data_set.label>>
      [] v.kind = "MatrixViewSingleItem" -> PointMeta(v.data_set)

\* MatrixView.items and its overrides
items(v) ==
    CASE v.kind = "MatrixView" -> v.data_matrix.columns
      [] v.kind = "TransposedMatrixView" -> v.data_matrix.rows
      [] v.kind = "MatrixViewSingleRecord" -> PointMeta(v.data_set)
      [] v.kind = "MatrixViewSingleItem" -> <<v.data_set.label>>

\* MatrixView.__call__ and its overrides
call(v, record_id, item_id) ==
    CASE v.kind = "MatrixView" -> v.data_matrix.values[record_id][item_id]
      [] v.kind = "TransposedMatrixView" -> v.data_matrix.values[item_id][record_id]
      [] v.kind = "MatrixViewSingleRecord" -> v.data_set.data[item_id].value
      [] v.kind = "MatrixViewSingleItem" -> v.data_set.data[record_id].value

range_items(v) == Range(Len(items(v)))

range_records(v) == Range(Len(records(v)))

\* a record_dataset that gives the points the MetaData of the record
record_dataset_record_meta(v, index) ==
    IF v.kind = "MatrixViewSingleRecord" THEN v.data_set
    ELSE DataSet([item_id \in 1..Len(items(v)) |->
                    DataPoint(call(v, index, item_id), records(v)[index])],
                 records(v)[index])

\* MatrixView.record_dataset, overridden by MatrixViewSingleRecord
record_dataset(v, index) ==
    IF v.kind = "MatrixViewSingleRecord" THEN v.data_set
    ELSE DataSet([item_id \in 1..Len(items(v)) |->
                    DataPoint(call(v, index, item_id), items(v)[item_id])],
                 records(v)[index])

\* MatrixView.item_dataset, overridden by MatrixViewSingleItem
item_dataset(v, index) ==
    IF v.kind = "MatrixViewSingleItem" THEN v.data_set
    ELSE DataSet([record_id \in 1..Len(records(v)) |->
                    DataPoint(call(v, record_id, index), records(v)[record_id])],
                 items(v)[index])

record_datasets(v) == [id \in 1..Len(records(v)) |-> record_dataset(v, id)]

item_datasets(v) == [id \in 1..Len(items(v)) |-> item_dataset(v, id)]

\* max(map(max, values)) raises ValueError on no rows or on a row of no values
view_max_raises(v) ==
    /\ v.kind \in {"MatrixView", "TransposedMatrixView"}
    /\ \/ v.data_matrix.values = <<>>
       \/ \E r \in 1..Len(v.data_matrix.values) : v.data_matrix.values[r] = <<>>

\* MatrixView.max_value and its overrides
view_max_value(v) ==
    IF v.kind \in {"MatrixView", "TransposedMatrixView"}
    THEN max([r \in 1..Len(v.data_matrix.values) |-> max(v.data_matrix.values[r])])
    ELSE max_value(v.data_set)

\* transposed without the override of TransposedMatrixView
transposed_not_overridden(v) ==
    CASE v.kind \in {"MatrixView", "TransposedMatrixView"} -> TransposedMatrixView(v.data_matrix)
      [] v.kind = "MatrixViewSingleRecord" -> MatrixViewSingleItem(v.data_set)
      [] v.kind = "MatrixViewSingleItem" -> MatrixViewSingleRecord(v.data_set)

\* MatrixView.transposed and its overrides
transposed(v) ==
    CASE v.kind = "MatrixView" -> TransposedMatrixView(v.data_matrix)
      [] v.kind = "TransposedMatrixView" -> MatrixView(v.data_matrix)
      [] v.kind = "MatrixViewSingleRecord" -> MatrixViewSingleItem(v.data_set)
      [] v.kind = "MatrixViewSingleItem" -> MatrixViewSingleRecord(v.data_set)

----------------------------------------------------------------------------
(* LineChart *)

\* LineChart.__init__
LineChart(rect, padding) == ChartBase(rect, padding, FALSE)

\* LineChartBase._value_point; index is the 0-based index of the code
value_point(self, percent, index, size) ==
    point_rel2abs(self, SvgPoint(IF size < 2 THEN Zero ELSE Frac(index, size - 1),
                                 percent))

\* LineChartBase.render_hgrid: the end points of the grid lines
render_hgrid(self, steps) ==
    [i \in 1..steps |-> [from |-> value_point(self, Zero, i - 1, steps),
                         to |-> value_point(self, One, i - 1, steps)]]

\* LineChart.points
points(self, ds, m) ==
    [i \in 1..Len(ds.data) |->
        value_point(self, normalized(ds.data[i], m), i - 1, Len(ds.data))]

\* LineChartBase._render_circle
render_circle(self, data_point, index, size, m) ==
    LET pos == value_point(self, normalized(data_point, m), index, size)
    IN  [cx |-> pos.x, cy |-> pos.y, title |-> format_title(self, data_point, m)]

\* LineChart.render_data_trace: the path of render_line and the circles of
\* render_points
render_data_trace(self, ds, m) ==
    [label |-> ds.label,
     max |-> m,
     normalized |-> [i \in 1..Len(ds.data) |-> normalized(ds.data[i], m)],
     path |-> points(self, ds, m),
     circles |-> [i \in 1..Len(ds.data) |->
                    render_circle(self, ds.data[i], i - 1, Len(ds.data), m)]]

Reversed(s) == [i \in 1..Len(s) |-> s[Len(s) + 1 - i]]

\* a render that scales the trace of each item by the item's own maximum
LineChart_render_own_max(self, v) ==
    IF view_max_raises(v) THEN [error |-> "ValueError"]
    ELSE LET sets == Reversed(item_datasets(v))
         IN  [rect |-> self.rect,
              grid |-> render_hgrid(self, Len(records(v))),
              traces |-> [k \in 1..Len(sets) |->
                            render_data_trace(self, sets[k], max_value(sets[k]))]]

\* LineChart.render on a matrix view
LineChart_render(self, v) ==
    IF view_max_raises(v) THEN [error |-> "ValueError"]
    ELSE LET global_max == view_max_value(v)
             sets == Reversed(item_datasets(v))
         IN  [rect |-> self.rect,
              grid |-> render_hgrid(self, Len(records(v))),
              traces |-> [k \in 1..Len(sets) |->
                            render_data_trace(self, sets[k], global_max)]]

----------------------------------------------------------------------------
(* StackedBarChart *)

Separations == {RInt(0), RInt(1)}   \* separation of a StackedBarChart

\* a StackedBarChart as its methods read it: self.rect, self.normalized and
\* self.separation
StackedBarChart(rect, norm, separation) ==
    [normalized |-> norm, rect |-> rect, separation |-> separation]

\* _subrect with a whole gap, not half of one, before the first bar
subrect_whole_margin(self, index, size) ==
    IF size = 0 THEN self.rect
    ELSE LET width == RDiv(One, RAdd(RInt(size), RMul(RInt(size), self.separation)))
             gap_with == RMul(width, self.separation)
             x == RAdd(gap_with, RMul(RAdd(gap_with, width), RInt(index)))
         IN  SvgRect(x, Zero, width, One)

\* StackedBarChart._subrect; index is the 0-based index of the code
subrect(self, index, size) ==
    IF size = 0 THEN self.rect
    ELSE LET width == RDiv(One, RAdd(RInt(size), RMul(RInt(size), self.separation)))
             gap_with == RMul(width, self.separation)
             x == RAdd(RDiv(gap_with, RInt(2)), RMul(RAdd(gap_with, width), RInt(index)))
         IN  SvgRect(x, Zero, width, One)

\* the relative height of a segment in StackedBarChart.render_bar
BarHeight(point, m, sub_rect) == RMul(Frac(point.value, m), sub_rect.height)

\* the value of `y` when the loop of StackedBarChart.render_bar reaches point i
RECURSIVE BarY(_, _, _, _)
BarY(ds, m, sub_rect, i) ==
    IF i = 1 THEN sub_rect.y
    ELSE RAdd(BarY(ds, m, sub_rect, i - 1), BarHeight(ds.data[i - 1], m, sub_rect))

\* float(point.value) / max raises ZeroDivisionError for the first point
render_bar_raises(ds, m) == ds.data # <<>> /\ m = 0

\* StackedBarChart.render_bar: one rect per point, in input order
render_bar(self, ds, m, sub_rect) ==
    [i \in 1..Len(ds.data) |->
        LET point == ds.data[i]
            rel_rect == SvgRect(sub_rect.x, BarY(ds, m, sub_rect, i),
                                sub_rect.width, BarHeight(point, m, sub_rect))
            abs_rect == rect_rel2abs(self, rel_rect)
        IN  [x |-> abs_rect.x, y |-> abs_rect.y,
             width |-> abs_rect.width, height |-> abs_rect.height,
             title |-> format_title(self, point, m)]]

\* global_max of StackedBarChart.render
BarGlobalMax(v) == max([i \in 1..Len(items(v)) |-> total(item_dataset(v, i))])

\* local_max of StackedBarChart.render for the record at index
BarLocalMax(self, v, index) ==
    IF self.normalized THEN total(record_dataset(v, index)) ELSE BarGlobalMax(v)

\* StackedBarChart.render
StackedBarChart_render(self, v) ==
    IF Len(items(v)) = 0 THEN [error |-> "ValueError"]
    ELSE IF \E index \in 1..Len(records(v)) :
                render_bar_raises(record_dataset(v, index), BarLocalMax(self, v, index))
    THEN [error |-> "ZeroDivisionError"]
    ELSE [bars |-> [index \in 1..Len(records(v)) |->
            LET ds == record_dataset(v, index)
                sub_rect == subrect(self, index - 1, Len(records(v)))
                local_max == BarLocalMax(self, v, index)
            IN  [max |-> local_max,
                 rects |-> render_bar(self, ds, local_max, sub_rect)]]]

----------------------------------------------------------------------------
(* RenderOptions and the markup of one element.  A dict is a function     *)
(* from its keys; an attribute value is kept as the string that           *)
(* make_attrs prints for it; a fragment of markup is the sequence of its  *)
(* tags and texts.                                                        *)

None == "None"      \* Python's None

EmptyDict == <<>>

\* dict.update: the keys of e take the values of e
Update(d, e) == e @@ d

\* MetaData.__init__
MetaData(label, id, link) == [label |-> label, id |-> id, link |-> link]

\* DataPoint.__init__ with every argument of MetaData
DataPointMeta(value, label, id, link) ==
    [value |-> value, label |-> label, id |-> id, link |-> link]

\* isinstance(metadata, DataPoint)
IsDataPoint(metadata) == "value" \in DOMAIN metadata

\* RenderOptions.__init__
RenderOptions(class_prefix, id_prefix, kwargs) ==
    [class_prefix |-> class_prefix, id_prefix |-> id_prefix, attrs |-> kwargs]

\* attributes with the overrides applied before the class and the id
attributes_overrides_early(self, metadata, kwargs) ==
    LET copied == self.attrs
        with_data == IF IsDataPoint(metadata)
                     THEN Update(copied, ("data-value" :> ToString(metadata.value))
                                            @@ ("data-name" :> metadata.label))
                     ELSE copied
        updated == Update(with_data, kwargs)
        with_class == IF metadata.id # "" /\ self.class_prefix # None
                      THEN Update(updated, "class" :> (self.class_prefix \o metadata.id))
                      ELSE updated
        with_id == IF metadata.id # "" /\ self.id_prefix # None
                   THEN Update(with_class, "id" :> (self.id_prefix \o metadata.id))
                   ELSE with_class
    IN  [k \in {j \in DOMAIN with_id : with_id[j] # None} |-> with_id[k]]

\* RenderOptions.attributes
attributes(self, metadata, kwargs) ==
    LET copied == self.attrs
        with_data == IF IsDataPoint(metadata)
                     THEN Update(copied, ("data-value" :> ToString(metadata.value))
                                            @@ ("data-name" :> metadata.label))
                     ELSE copied
        with_class == IF metadata.id # "" /\ self.class_prefix # None
                      THEN Update(with_data, "class" :> (self.class_prefix \o metadata.id))
                      ELSE with_data
        with_id == IF metadata.id # "" /\ self.id_prefix # None
                   THEN Update(with_class, "id" :> (self.id_prefix \o metadata.id))
                   ELSE with_class
        updated == Update(with_id, kwargs)
    IN  [k \in {j \in DOMAIN updated : updated[j] # None} |-> updated[k]]

\* self.attrs after an attributes that updates self.attrs itself
attrs_after_attributes_shared(self, metadata, kwargs) ==
    LET with_data == IF IsDataPoint(metadata)
                     THEN Update(self.attrs, ("data-value" :> ToString(metadata.value))
                                                @@ ("data-name" :> metadata.label))
                     ELSE self.attrs
        with_class == IF metadata.id # "" /\ self.class_prefix # None
                      THEN Update(with_data, "class" :> (self.class_prefix \o metadata.id))
                      ELSE with_data
        with_id == IF metadata.id # "" /\ self.id_prefix # None
                   THEN Update(with_class, "id" :> (self.id_prefix \o metadata.id))
                   ELSE with_class
    IN  Update(with_id, kwargs)

\* self.attrs after RenderOptions.attributes, which works on a copy of it
attrs_after_attributes(self, metadata, kwargs) == self.attrs

OpenTag(name, attrs) == [t |-> "open", name |-> name, attrs |-> attrs]
CloseTag(name) == [t |-> "close", name |-> name]
EmptyTag(name, attrs) == [t |-> "empty", name |-> name, attrs |-> attrs]
Text(string) == [t |-> "text", text |-> string]

\* MetaData.wrap_link
wrap_link(self, svg) ==
    IF self.link = None \/ self.link = "" THEN svg
    ELSE <<OpenTag("a", "xlink:href" :> self.link)>> \o svg \o <<CloseTag("a")>>

\* RenderOptions.render_element: "<element attrs" followed by
\* "><title>title</element>" or by "/>", wrapped in the link
render_element(self, element, metadata, title, kwargs) ==
    LET shown == IF title = None /\ metadata.label # "" THEN metadata.label ELSE title
        attrs == attributes(self, metadata, kwargs)
    IN  wrap_link(metadata,
            IF shown # None /\ shown # ""
            THEN <<OpenTag(element, attrs), OpenTag("title", EmptyDict),
                   Text(shown), CloseTag(element)>>
            ELSE <<EmptyTag(element, attrs)>>)

----------------------------------------------------------------------------
(* The constructors of the charts *)

\* a call of ChartBase.__init__(self, rect, padding, normalized) with the
\* given positional arguments
ChartBase_call(args) ==
    IF Len(args) # 3 THEN [error |-> "TypeError"]
    ELSE ChartBase(args[1], args[2], args[3])

\* StackedBarChart.__init__: super().__init__(rect, normalized), then separation
StackedBarChart_init(rect, padding, norm, separation) ==
    LET base == ChartBase_call(<<rect, norm>>)
    IN  IF "error" \in DOMAIN base THEN base
        ELSE [normalized |-> base.normalized, rect |-> base.rect,
              separation |-> separation]

\* StackedLineChart.__init__
StackedLineChart(rect, padding, norm) == ChartBase_call(<<rect, padding, norm>>)

----------------------------------------------------------------------------
(* StackedLineChart *)

\* an accumulate that takes in the value of the item itself
Accumulate_inclusive(v, r_id, it_id) == sum([j \in 1..it_id |-> call(v, r_id, j)])

\* accumulate[r_id][it_id]: the sum of the values of the record before the item
Accumulate(v, r_id, it_id) == sum([j \in 1..(it_id - 1) |-> call(v, r_id, j)])

\* local_max[r_id]: the sum of the values of the record
LineLocalMax(v, r_id) == sum([j \in 1..Len(items(v)) |-> call(v, r_id, j)])

\* global_max = max(local_max) if local_max else 0.0
LineGlobalMax(v) ==
    IF Len(records(v)) = 0 THEN 0
    ELSE max([r_id \in 1..Len(records(v)) |-> LineLocalMax(v, r_id)])

\* max_for
max_for(self, v, r_id) ==
    IF self.normalized THEN LineLocalMax(v, r_id) ELSE LineGlobalMax(v)

\* normalize: value / max_for(record_id)
normalize(self, v, value, r_id) == Frac(value, max_for(self, v, r_id))

\* StackedLineChart.render: the error it raises, or the areas (one path per
\* item, last item first), the grid and the circles
StackedLineChart_render(self, v) ==
    LET size == Len(records(v))
        its == Reversed(Range(Len(items(v))))
    IN  IF Len(its) > 0 /\ size = 0 THEN [error |-> "IndexError"]
        ELSE IF Len(its) > 0 /\ \E r_id \in 1..size : max_for(self, v, r_id) = 0
        THEN [error |-> "ZeroDivisionError"]
        ELSE [paths |-> [k \in 1..Len(its) |->
                LET it_id == its[k]
                IN  [label |-> items(v)[it_id],
                     start |-> value_point(self, normalize(self, v, Accumulate(v, 1, it_id), 1),
                                           0, size),
                     upper |-> [r_id \in 1..size |->
                        value_point(self,
                            normalize(self, v, call(v, r_id, it_id) + Accumulate(v, r_id, it_id),
                                      r_id),
                            r_id - 1, size)],
                     lower |-> Reversed([r_id \in 1..size |->
                        value_point(self, normalize(self, v, Accumulate(v, r_id, it_id), r_id),
                                    r_id - 1, size)])]],
              grid |-> render_hgrid(self, size),
              points |-> [k \in 1..Len(its) |->
                LET it_id == its[k]
                    Drawn(r_id) == call(v, r_id, it_id) # 0
                    drawn == SelectSeq(Range(size), Drawn)
                IN  [n \in 1..Len(drawn) |->
                        LET r_id == drawn[n]
                            value == call(v, r_id, it_id)
                            pos == value_point(self,
                                      normalize(self, v, value + Accumulate(v, r_id, it_id), r_id),
                                      r_id - 1, size)
                        IN  [record |-> r_id, cx |-> pos.x, cy |-> pos.y,
                             title |-> format_title(self, DataPoint(value, items(v)[it_id]),
                                                    max_for(self, v, r_id))]]]]

----------------------------------------------------------------------------
(* The elements a render emits and the calls of options.attributes it     *)
(* makes.  The ctor_args of a MetaData are its label, which is its id     *)
(* too; the geometry of an element is in the output of the chart, and the *)
(* keyword that carries it has its own name for value.                    *)

AsMetaData(x) ==
    IF "value" \in DOMAIN x THEN DataPointMeta(x.value, x.label, x.label, None)
    ELSE MetaData(x.label, x.label, None)

AttributeCall(x, kwargs) == [metadata |-> AsMetaData(x), kwargs |-> kwargs]

Geometry(keys) == [k \in keys |-> k]

RECURSIVE Concat(_)
Concat(seqs) == IF Len(seqs) = 0 THEN <<>> ELSE Head(seqs) \o Concat(Tail(seqs))

\* the dicts that successive calls of options.attributes return, and the
\* options after them
RECURSIVE Called(_, _)
Called(self, calls) ==
    IF Len(calls) = 0 THEN [self |-> self, returned |-> <<>>]
    ELSE LET c == Head(calls)
             after == [self EXCEPT
                        !.attrs = attrs_after_attributes(self, c.metadata, c.kwargs)]
             rest == Called(after, Tail(calls))
         IN  [self |-> rest.self,
              returned |-> <<attributes(self, c.metadata, c.kwargs)>> \o rest.returned]

\* PieChart.render: render_element("path", point, title, d=slice_path)
PieCalls(ds) == [i \in 1..Len(ds.data) |-> AttributeCall(ds.data[i], Geometry({"d"}))]

\* LineChart.render_data_trace of every item: the g, the path, the circles
LineCalls(v) ==
    LET sets == Reversed(item_datasets(v))
    IN  Concat([k \in 1..Len(sets) |->
            <<AttributeCall(sets[k], "r" :> None),
              AttributeCall(sets[k], Geometry({"d"}) @@ ("r" :> None))>>
            \o [i \in 1..Len(sets[k].data) |->
                    AttributeCall(sets[k].data[i], Geometry({"cx", "cy"}))]])

\* StackedBarChart.render_bar of every record: one rect per point
BarCalls(v) ==
    Concat([index \in 1..Len(records(v)) |->
        LET ds == record_dataset(v, index)
        IN  [i \in 1..Len(ds.data) |->
                AttributeCall(ds.data[i], Geometry({"x", "y", "width", "height"}))]])

\* StackedLineChart.render: per item, the circles and then the path
StackedLineCalls(v, chart) ==
    Concat([k \in 1..Len(chart.paths) |->
        [n \in 1..Len(chart.points[k]) |->
            AttributeCall(DataPoint(call(v, chart.points[k][n].record,
                                         Len(chart.paths) + 1 - k),
                                    chart.paths[k].label),
                          Geometry({"cx", "cy"}))]
        \o <<AttributeCall([label |-> chart.paths[k].label],
                           Geometry({"d"}) @@ ("r" :> None))>>])

\* the number of elements in the markup of a chart
Elements(op, chart) ==
    CASE op = "pie_chart" -> Len(chart.slices)
      [] op = "line_chart" ->
            1 + sum([k \in 1..Len(chart.traces) |-> 2 + Len(chart.traces[k].circles)])
      [] op = "stacked_bar_chart" ->
            sum([k \in 1..Len(chart.bars) |-> 1 + Len(chart.bars[k].rects)])
      [] op = "stacked_line_chart" ->
            Len(chart.paths) + 1
                + sum([k \in 1..Len(chart.points) |->
                        IF Len(chart.points[k]) = 0 THEN 0 ELSE 1 + Len(chart.points[k])])

----------------------------------------------------------------------------
(* The pages that build a DataMatrix (mldb_frontend/views.py).  A         *)
(* character and an episode are their ids; the database is the number of  *)
(* lines of each character in each episode.                               *)

Threshold == 10     \* cutoff(characters, threshold=10)

\* the lines of a character in an episode, as the database holds them
n_lines(character, episode) == (character * episode) % 3

\* character_metadata / episode_metadata
character_metadata(character) == "character " \o ToString(character)
episode_metadata(episode) == "episode " \o ToString(episode)

\* a query that keeps only the episodes with matching lines
count_lines_for_matching(characters, episodes) ==
    LET counted == [e \in 1..Len(episodes) |->
                        sum([c \in 1..Len(characters) |->
                                n_lines(characters[c], episodes[e])])]
        Matching(n) == n > 0
    IN  SelectSeq(counted, Matching)

\* count_lines_for: n_lines of every episode of the queryset, 0 for an
\* episode without matching lines
count_lines_for(characters, episodes) ==
    [e \in 1..Len(episodes) |->
        sum([c \in 1..Len(characters) |-> n_lines(characters[c], episodes[e])])]

\* get_trends_data
get_trends_data(characters, episodes) ==
    DataMatrix([c \in 1..Len(characters) |-> character_metadata(characters[c])],
               [e \in 1..Len(episodes) |-> episode_metadata(episodes[e])],
               [c \in 1..Len(characters) |-> count_lines_for(<<characters[c]>>, episodes)])

\* cutoff
cutoff(characters, threshold) ==
    [detailed |-> SubSeq(characters, 1, IF Len(characters) < threshold
                                        THEN Len(characters) ELSE threshold),
     other |-> SubSeq(characters, threshold + 1, Len(characters))]

\* trends_data.rows.append(MetaData("Other", "other")) and
\* trends_data.values.append(lines)
append_other(trends_data, lines) ==
    DataMatrix(Append(trends_data.rows, "Other"), trends_data.columns,
               Append(trends_data.values, lines))

\* trends_data of Season.get: as built, and as handed to the template
Season_get(characters, episodes) ==
    LET cut == cutoff(characters, Threshold)
        built == get_trends_data(cut.detailed, episodes)
    IN  [built |-> built,
         trends_data |-> append_other(built, count_lines_for(cut.other, episodes))]

\* trends_data of Compare.get for a valid form
Compare_get(characters, episodes, others, include_other) ==
    LET built == get_trends_data(characters, episodes)
    IN  [built |-> built,
         trends_data |-> IF include_other
                         THEN append_other(built, count_lines_for(others, episodes))
                         ELSE built]

----------------------------------------------------------------------------
(* The views of the API (simple_page/api_base.py) *)

\* ApiBase.response_types and ApiBase.default_response
response_types == [json |-> "JsonResponse", py |-> "PonResponse"]
default_response == "JsonResponse"

\* http_codes, for the codes that view uses
http_codes(code) ==
    CASE code = 404 -> "Not Found"
      [] code = 405 -> "Method Not Allowed"
      [] code = 500 -> "Internal Server Error"

\* ApiResponse.error
ApiResponse_error(cls, code, msg) ==
    [cls |-> cls, status |-> code, pretty |-> FALSE,
     content |-> [error |-> IF msg = None THEN http_codes(code) ELSE msg]]

\* a view that looks at the request method before the response type
BoundViewWrapper_view_method_first(methods, callback, debug, method, pretty, type) ==
    IF ~(methods = {} \/ method \in methods)
    THEN [called |-> FALSE,
          response |-> ApiResponse_error(
                IF type \in DOMAIN response_types THEN response_types[type]
                ELSE default_response, 405, None)]
    ELSE IF type \notin DOMAIN response_types
    THEN [called |-> FALSE,
          response |-> ApiResponse_error(default_response, 404, "Unknown file type")]
    ELSE LET response_type == response_types[type]
         IN  CASE callback = "returns" ->
                    [called |-> TRUE,
                     response |-> [cls |-> response_type, status |-> 200,
                                   pretty |-> pretty, content |-> "result"]]
               [] callback = "Http404" ->
                    [called |-> TRUE,
                     response |-> ApiResponse_error(response_type, 404, None)]
               [] callback = "Exception" ->
                    IF debug THEN [called |-> TRUE, raised |-> "Exception"]
                    ELSE [called |-> TRUE,
                          response |-> ApiResponse_error(response_type, 500, None)]

\* BoundViewWrapper.view: self.methods and what self.callback does, DEBUG
\* of the settings, and of the request the method, "pretty" in GET and the
\* type of the URL
BoundViewWrapper_view(methods, callback, debug, method, pretty, type) ==
    IF type \notin DOMAIN response_types
    THEN [called |-> FALSE,
          response |-> ApiResponse_error(default_response, 404, "Unknown file type")]
    ELSE LET response_type == response_types[type]
         IN  IF methods = {} \/ method \in methods
             THEN CASE callback = "returns" ->
                        [called |-> TRUE,
                         response |-> [cls |-> response_type, status |-> 200,
                                       pretty |-> pretty, content |-> "result"]]
                    [] callback = "Http404" ->
                        [called |-> TRUE,
                         response |-> ApiResponse_error(response_type, 404, None)]
                    [] callback = "Exception" ->
                        IF debug THEN [called |-> TRUE, raised |-> "Exception"]
                        ELSE [called |-> TRUE,
                              response |-> ApiResponse_error(response_type, 500, None)]
             ELSE [called |-> FALSE,
                   response |-> ApiResponse_error(response_type, 405, None)]

----------------------------------------------------------------------------
(* The DataSet and the charts drawn from it *)

NoOptions == [kind |-> "none"]
NoView == [kind |-> "none"]
NoInput == [fn |-> "none"]

\* Page.resources as the class statement leaves it: the style sheet of simple_page
PageResources == <<"simple_page/style.css">>
Idle == [op |-> "init"]

RECURSIVE SeqsUpTo(_, _)
SeqsUpTo(S, n) ==
    IF n = 0 THEN {<<>>}
    ELSE LET shorter == SeqsUpTo(S, n - 1)
         IN  shorter \cup {Append(s, x) : s \in {t \in shorter : Len(t) = n - 1}, x \in S}

Init ==
    /\ \E pts \in SeqsUpTo(DataPoints, MaxLen) :
          /\ data_set = DataSet(pts, "set")
          /\ given = pts
    /\ view = NoView
    /\ options = NoOptions
    /\ input = NoInput
    /\ resources = PageResources
    /\ out = Idle

Append_(point) ==
    /\ Len(data_set.data) < MaxLen
    /\ data_set' = append(data_set, point)
    /\ given' = Append(given, point)
    /\ out' = [op |-> "append", point |-> point]
    /\ UNCHANGED <<view, options, input, resources>>

\* the pie_chart template tag: PieChart(rect, padding, None, angle_start).render(data)
PieChartTag(width, padding, angle_start) ==
    /\ out' = [op |-> "pie_chart",
               angle_start |-> angle_start,
               slices |-> PieChart_render(
                    PieChart(TagRect(width, width), padding, angle_start), data_set)]
    /\ UNCHANGED <<data_set, given, view, options, input, resources>>

\* the line_chart template tag on a DataSet, which LineChart.render wraps
\* in a MatrixViewSingleItem
LineChartTag(width, padding) ==
    /\ out' = [op |-> "line_chart",
               chart |-> LineChart_render(LineChart(TagRect(width, width), padding),
                                          MatrixViewSingleItem(data_set))]
    /\ UNCHANGED <<data_set, given, view, options, input, resources>>

Next ==
    \/ \E point \in DataPoints : Append_(point)
    \/ \E w \in Widths, p \in Paddings, a \in AngleStarts : PieChartTag(w, p, a)
    \/ \E w \in Widths, p \in Paddings : LineChartTag(w, p)

Spec == Init /\ [][Next]_vars

----------------------------------------------------------------------------
(* The matrix views and the charts drawn from them *)

RowNames == <<"r1", "r2", "r3", "r4">>
ColumnNames == <<"c1", "c2", "c3", "c4">>

\* the DataMatrix values of every shape up to MaxRows x MaxCols
Matrices ==
    UNION {
        {DataMatrix(SubSeq(RowNames, 1, r), SubSeq(ColumnNames, 1, c), values) :
            values \in [1..r -> [1..c -> MatrixValues]]} :
        r \in 0..MaxRows, c \in 0..MaxCols}

ViewPoints == [value : MatrixValues, label : ViewLabels]

Views ==
    {MatrixView(m) : m \in Matrices}
        \cup {TransposedMatrixView(m) : m \in Matrices}
        \cup {MatrixViewSingleRecord(DataSet(pts, "set")) : pts \in SeqsUpTo(ViewPoints, MaxLen)}
        \cup {MatrixViewSingleItem(DataSet(pts, "set")) : pts \in SeqsUpTo(ViewPoints, MaxLen)}

InitView ==
    /\ view \in Views
    /\ data_set = IF "data_set" \in DOMAIN view THEN view.data_set ELSE DataSet(<<>>, "set")
    /\ given = data_set.data
    /\ options = NoOptions
    /\ input = NoInput
    /\ resources = PageResources
    /\ out = Idle

\* view.transposed
Transposed ==
    /\ view' = transposed(view)
    /\ out' = [op |-> "transposed", of |-> view]
    /\ UNCHANGED <<data_set, given, options, input, resources>>

\* view(record_id, item_id), with the 1-based indices of the model
ViewCall(record_id, item_id) ==
    /\ record_id \in 1..Len(records(view))
    /\ item_id \in 1..Len(items(view))
    /\ out' = [op |-> "call", record_id |-> record_id, item_id |-> item_id,
               value |-> call(view, record_id, item_id)]
    /\ UNCHANGED <<data_set, given, view, options, input, resources>>

\* StackedBarChart.render of a chart with the given fields
StackedBarRender(width, norm, separation) ==
    /\ out' = [op |-> "stacked_bar_chart",
               normalized |-> norm,
               rect |-> TagRect(width, width),
               chart |-> StackedBarChart_render(
                    StackedBarChart(TagRect(width, width), norm, separation), view)]
    /\ UNCHANGED <<data_set, given, view, options, input, resources>>

NextView ==
    \/ Transposed
    \/ \E r \in 1..Len(records(view)), i \in 1..Len(items(view)) : ViewCall(r, i)
    \/ \E w \in Widths, norm \in BOOLEAN, sep \in Separations : StackedBarRender(w, norm, sep)

SpecView == InitView /\ [][NextView]_vars

----------------------------------------------------------------------------
(* Single calls: the caller holds a function and its arguments (input)    *)
(* and makes the call                                                     *)

CallRects == {TagRect(100, 100), SvgRect(RInt(10), RInt(20), RInt(100), RInt(50))}
CallPaddings == {0, 10, 25, 60}
RelCoords == {Frac(-1, 2), Zero, Half, One, Frac(3, 2)}

\* the value rows a caller may hand to DataMatrix, of any shape
ValueGrids == SeqsUpTo(SeqsUpTo(MatrixValues, MaxCols), MaxRows)

OptionSet ==
    {RenderOptions(c, i, a) :
        c \in {None, "c_"}, i \in {None, "i_"},
        a \in {EmptyDict, "r" :> "5", ("class" :> "base") @@ ("r" :> None)}}

MetaDataSet ==
    {MetaData(l, i, k) : l \in {"", "L"}, i \in {"", "x"}, k \in {None, "/u"}}
        \cup {DataPointMeta(3, "L", i, None) : i \in {"", "x"}}

OverrideSet ==
    {EmptyDict, "r" :> None, "class" :> "over", ("d" :> "M") @@ ("id" :> None),
     "data-value" :> None}

SubrectSeparations == {Zero, Half, One, RInt(2)}

MaxCharacters == 12     \* most characters in the database
MaxEpisodes == 3        \* most episodes of a season or of a range

CallInputs ==
    {[fn |-> "DataMatrix", rows |-> SubSeq(RowNames, 1, r),
      columns |-> SubSeq(ColumnNames, 1, c), values |-> g] :
        r \in 0..MaxRows, c \in 0..MaxCols, g \in ValueGrids}
    \cup {[fn |-> "PieChart", rect |-> r, padding |-> p, angle_start |-> a] :
        r \in CallRects, p \in CallPaddings, a \in AngleStarts}
    \cup {[fn |-> "LineChart", rect |-> r, padding |-> p] :
        r \in CallRects, p \in CallPaddings}
    \cup {[fn |-> "StackedBarChart", rect |-> r, padding |-> p, normalized |-> n,
           separation |-> e] :
        r \in CallRects, p \in CallPaddings, n \in BOOLEAN, e \in Separations}
    \cup {[fn |-> "StackedLineChart", rect |-> r, padding |-> p, normalized |-> n] :
        r \in CallRects, p \in CallPaddings, n \in BOOLEAN}
    \cup {[fn |-> "point_rel2abs", rect |-> r, padding |-> p, point |-> SvgPoint(x, y)] :
        r \in CallRects, p \in CallPaddings, x \in RelCoords, y \in RelCoords}
    \cup UNION {{[fn |-> "_value_point", rect |-> r, padding |-> p, percent |-> y,
                   index |-> i, size |-> n] :
                    r \in CallRects, p \in CallPaddings, y \in RelCoords,
                    i \in 0..(n - 1)} : n \in 1..MaxLen}
    \cup {[fn |-> "_subrect", separation |-> e, size |-> n] :
        e \in SubrectSeparations, n \in 1..MaxLen}
    \cup UNION {{[fn |-> "record_dataset", view |-> v, index |-> k] :
                    k \in 1..Len(records(v))} : v \in Views}
    \cup {[fn |-> "Season.get", characters |-> Range(c), episodes |-> Range(e)] :
        c \in 0..MaxCharacters, e \in 0..MaxEpisodes}
    \cup {[fn |-> "Compare.get", characters |-> Range(c), episodes |-> Range(e),
           others |-> [i \in 1..(MaxCharacters - c) |-> c + i], include_other |-> o] :
        c \in 0..MaxCharacters, e \in 0..MaxEpisodes, o \in BOOLEAN}
    \cup {[fn |-> "view", methods |-> ms, callback |-> c, debug |-> d, method |-> m,
           pretty |-> p, type |-> t] :
        ms \in {{}, {"GET", "HEAD"}, {"POST"}}, c \in {"returns", "Http404", "Exception"},
        d \in BOOLEAN, m \in {"GET", "POST"}, p \in BOOLEAN, t \in {"json", "py", "xml"}}
    \cup {[fn |-> "attributes", self |-> o, metadata |-> m, kwargs |-> k] :
        o \in OptionSet, m \in MetaDataSet, k \in OverrideSet}
    \cup {[fn |-> "render_element", self |-> o, element |-> e, metadata |-> m,
           title |-> t, kwargs |-> k] :
        o \in {RenderOptions(None, None, EmptyDict), RenderOptions("c_", None, "r" :> "5")},
        e \in {"path", "circle"}, m \in MetaDataSet, t \in {None, "", "T"},
        k \in {EmptyDict, "d" :> "M"}}

InitCall ==
    /\ input \in CallInputs
    /\ resources = PageResources
    /\ data_set = DataSet(<<>>, "set")
    /\ given = <<>>
    /\ view = NoView
    /\ options = NoOptions
    /\ out = Idle

Returns(result) ==
    /\ out = Idle
    /\ out' = result
    /\ UNCHANGED <<data_set, given, view, options, input, resources>>

\* DataMatrix(rows, columns, values)
NewDataMatrix ==
    /\ input.fn = "DataMatrix"
    /\ Returns([op |-> "DataMatrix",
                matrix |-> DataMatrix(input.rows, input.columns, input.values)])

\* PieChart(rect, padding, None, angle_start)
NewPieChart ==
    /\ input.fn = "PieChart"
    /\ Returns([op |-> "PieChart",
                chart |-> PieChart(input.rect, input.padding, input.angle_start)])

\* LineChart(rect, padding)
NewLineChart ==
    /\ input.fn = "LineChart"
    /\ Returns([op |-> "LineChart", chart |-> LineChart(input.rect, input.padding)])

\* StackedBarChart(rect, padding, normalized, separation)
NewStackedBarChart ==
    /\ input.fn = "StackedBarChart"
    /\ Returns([op |-> "StackedBarChart",
                chart |-> StackedBarChart_init(input.rect, input.padding,
                                               input.normalized, input.separation)])

\* StackedLineChart(rect, padding, normalized)
NewStackedLineChart ==
    /\ input.fn = "StackedLineChart"
    /\ Returns([op |-> "StackedLineChart",
                chart |-> StackedLineChart(input.rect, input.padding, input.normalized)])

\* ChartBase(rect, padding, False).point_rel2abs(point)
CallPointRel2Abs ==
    /\ input.fn = "point_rel2abs"
    /\ LET self == ChartBase(input.rect, input.padding, FALSE)
       IN  Returns([op |-> "point_rel2abs", rect |-> self.rect,
                    point |-> point_rel2abs(self, input.point)])

\* LineChart(rect, padding)._value_point(percent, index, size)
CallValuePoint ==
    /\ input.fn = "_value_point"
    /\ LET self == LineChart(input.rect, input.padding)
       IN  Returns([op |-> "_value_point", rect |-> self.rect,
                    point |-> value_point(self, input.percent, input.index, input.size)])

\* chart._subrect(index, size) for every index of the size records, as
\* StackedBarChart.render calls it
CallSubrect ==
    /\ input.fn = "_subrect"
    /\ LET self == StackedBarChart(TagRect(100, 100), FALSE, input.separation)
       IN  Returns([op |-> "_subrect",
                    rects |-> [i \in 1..input.size |-> subrect(self, i - 1, input.size)]])

\* view.record_dataset(index), and view.transposed.item_dataset(index)
CallRecordDataset ==
    /\ input.fn = "record_dataset"
    /\ Returns([op |-> "record_dataset",
                data_set |-> record_dataset(input.view, input.index),
                transposed_item |-> item_dataset(transposed(input.view), input.index)])

\* Season(season).get(request): the trends_data of the context
CallSeasonGet ==
    /\ input.fn = "Season.get"
    /\ LET got == Season_get(input.characters, input.episodes)
       IN  Returns([op |-> "Season.get", built |-> got.built,
                    trends_data |-> got.trends_data])

\* Compare().get(request) with a valid form: the trends_data of the context
CallCompareGet ==
    /\ input.fn = "Compare.get"
    /\ LET got == Compare_get(input.characters, input.episodes, input.others,
                              input.include_other)
       IN  Returns([op |-> "Compare.get", built |-> got.built,
                    trends_data |-> got.trends_data])

\* wrapper.view(request, type) of a bound view of an ApiBase
CallView ==
    /\ input.fn = "view"
    /\ Returns([op |-> "view",
                outcome |-> BoundViewWrapper_view(input.methods, input.callback,
                                input.debug, input.method, input.pretty, input.type)])

\* options.attributes(metadata, **kwargs)
CallAttributes ==
    /\ input.fn = "attributes"
    /\ Returns([op |-> "attributes",
                attrs |-> attributes(input.self, input.metadata, input.kwargs),
                self_attrs |-> attrs_after_attributes(input.self, input.metadata,
                                                      input.kwargs)])

\* options.render_element(element, metadata, title, **kwargs)
CallRenderElement ==
    /\ input.fn = "render_element"
    /\ Returns([op |-> "render_element",
                tokens |-> render_element(input.self, input.element, input.metadata,
                                          input.title, input.kwargs)])

NextCall ==
    \/ NewDataMatrix
    \/ NewPieChart
    \/ NewLineChart
    \/ NewStackedBarChart
    \/ NewStackedLineChart
    \/ CallPointRel2Abs
    \/ CallValuePoint
    \/ CallSubrect
    \/ CallRecordDataset
    \/ CallSeasonGet
    \/ CallCompareGet
    \/ CallView
    \/ CallAttributes
    \/ CallRenderElement

SpecCall == InitCall /\ [][NextCall]_vars

----------------------------------------------------------------------------
(* Renders of a view with RenderOptions: the caller holds a view and the  *)
(* options, and renders charts of it one after the other                  *)

\* the shared default RenderOptions(), and options with prefixes and an attribute
RenderOptionSet ==
    {RenderOptions(None, None, EmptyDict), RenderOptions("c_", "i_", "r" :> "5")}

RenderRect == TagRect(100, 100)

InitRender ==
    /\ view \in Views
    /\ data_set = IF "data_set" \in DOMAIN view THEN view.data_set ELSE DataSet(<<>>, "set")
    /\ given = data_set.data
    /\ options \in RenderOptionSet
    /\ input = NoInput
    /\ resources = PageResources
    /\ out = Idle

\* what a render returns or raises, and the options after it
Rendered(op, norm, chart, calls) ==
    \E called \in {Called(options, calls)} :
        /\ out' = [op |-> op, normalized |-> norm, chart |-> chart,
                   attrs |-> called.returned,
                   elements |-> IF "error" \in DOMAIN chart THEN 0
                                ELSE Elements(op, chart)]
        /\ options' = called.self

\* PieChart(rect, 10).render(data, options) of a DataSet
PieRender ==
    /\ "data_set" \in DOMAIN view
    /\ \E chart \in {[slices |-> PieChart_render(PieChart(RenderRect, 10, Zero),
                                                 view.data_set)]} :
            Rendered("pie_chart", TRUE, chart, PieCalls(view.data_set))
    /\ UNCHANGED <<data_set, given, view, input, resources>>

\* LineChart(rect, 10).render(view, options)
LineRender ==
    /\ \E chart \in {LineChart_render(LineChart(RenderRect, 10), view)} :
            Rendered("line_chart", FALSE, chart,
                     IF "error" \in DOMAIN chart THEN <<>> ELSE LineCalls(view))
    /\ UNCHANGED <<data_set, given, view, input, resources>>

\* StackedBarChart.render(view, options) of a chart with the given fields
BarRender(norm) ==
    /\ \E chart \in {StackedBarChart_render(StackedBarChart(RenderRect, norm, One), view)} :
            Rendered("stacked_bar_chart", norm, chart,
                     IF "error" \in DOMAIN chart THEN <<>> ELSE BarCalls(view))
    /\ UNCHANGED <<data_set, given, view, input, resources>>

\* StackedLineChart(rect, 10, normalized).render(view, options)
StackedLineRender(norm) ==
    /\ \E chart \in {StackedLineChart_render(StackedLineChart(RenderRect, 10, norm), view)} :
            Rendered("stacked_line_chart", norm, chart,
                     IF "error" \in DOMAIN chart THEN <<>>
                     ELSE StackedLineCalls(view, chart))
    /\ UNCHANGED <<data_set, given, view, input, resources>>

NextRender ==
    \/ PieRender
    \/ LineRender
    \/ \E norm \in BOOLEAN : BarRender(norm)
    \/ \E norm \in BOOLEAN : StackedLineRender(norm)

SpecRender == InitRender /\ [][NextRender]_vars

----------------------------------------------------------------------------
(* The pages of the site: every request constructs a page of the class    *)
(* its URL names and calls get on it                                      *)

MaxRequests == 20       \* most requests served

svg_css_resource == "mldb/svg.css"

\* the page classes of mldb_frontend, and those whose __init__ appends
\* svg_css_resource to self.resources
PageClasses ==
    {"Home", "Episodes", "Season", "Episode", "Characters", "Character", "Search",
     "Compare"}
SvgPages == {"Season", "Episode", "Characters", "Character", "Compare"}

\* cls.resources and self.resources: no page class and no page assigns
\* resources, so the lookup ends at the list of the class Page
class_resources(cls) == resources

\* cls.view(request): cls(*args, **kwargs).get(request); the page that is
\* rendered shows self.resources
PageView(cls) ==
    /\ Len(resources) <= MaxRequests
    /\ resources' = IF cls \in SvgPages THEN Append(resources, svg_css_resource)
                    ELSE resources
    /\ out' = [op |-> "view", cls |-> cls, resources |-> resources']
    /\ UNCHANGED <<data_set, given, view, options, input>>

InitPage ==
    /\ data_set = DataSet(<<>>, "set")
    /\ given = <<>>
    /\ view = NoView
    /\ options = NoOptions
    /\ input = NoInput
    /\ resources = PageResources
    /\ out = Idle

NextPage == \E cls \in PageClasses : PageView(cls)

SpecPage == InitPage /\ [][NextPage]_vars

----------------------------------------------------------------------------
(* Properties of the DataSet and of the charts drawn from it *)

RECURSIVE SumFirst(_, _)
SumFirst(s, n) == IF n = 0 THEN 0 ELSE SumFirst(s, n - 1) + s[n].value

InUnitRange(q) == RLe(Zero, q) /\ RLe(q, One)

\* C1: after DataSet(points) and any appends, the DataSet holds exactly the
\* points it was given, in order, and total() is the sum of their values
C1_TotalIsSum ==
    /\ data_set.data = given
    /\ total(data_set) = SumFirst(given, Len(given))

C1_Witness ==
    /\ out.op = "append"
    /\ Len(data_set.data) >= 2
    /\ total(data_set) > data_set.data[1].value

\* C2: max_value() is the largest of the values of the points given, hence
\* at least every point's value, and 0 when there is no point
C2_MaxIsMaximum ==
    IF given = <<>> THEN max_value(data_set) = 0
    ELSE /\ \E i \in 1..Len(given) : given[i].value = max_value(data_set)
         /\ \A i \in 1..Len(given) : given[i].value <= max_value(data_set)

C2_Witness ==
    /\ out.op = "append"
    /\ Len(data_set.data) >= 2
    /\ data_set.data[Len(data_set.data)].value = max_value(data_set)
    /\ data_set.data[1].value < max_value(data_set)

\* C3: the percent of every point of a pie chart (value / total, printed in
\* the title and used for the slice) is in [0, 1] when the total is
\* positive and is 0 when the total is 0
C3_PercentInUnitRange ==
    out.op = "pie_chart" =>
        \A i \in 1..Len(out.slices) :
            LET percent == out.slices[i].title.percent
            IN  /\ total(data_set) > 0 => InUnitRange(percent)
                /\ total(data_set) = 0 => percent = Zero /\ out.slices[i].angle_delta = Zero

\* C4: the normalized value of every point scaled against the maximum of
\* its own DataSet is 1 when that maximum is 0 and in [0, 1] otherwise
C4_NormalizedInUnitRange ==
    out.op = "line_chart" =>
        \A k \in 1..Len(out.chart.traces) :
            LET trace == out.chart.traces[k]
            IN  trace.max = max_value(data_set) =>
                    \A i \in 1..Len(trace.normalized) :
                        IF trace.max = 0 THEN trace.normalized[i] = One
                        ELSE InUnitRange(trace.normalized[i])

\* C5: with a positive total, slice i of PieChart.render spans value_i/total
\* of a turn, the first slice starts at the start angle, every slice starts
\* where the previous one ended, and the slices add up to one full turn
C5_PieSlices ==
    (out.op = "pie_chart" /\ total(data_set) > 0) =>
        LET slices == out.slices
            n == Len(data_set.data)
        IN  /\ Len(slices) = n
            /\ \A i \in 1..n :
                /\ slices[i].title.label = data_set.data[i].label
                /\ slices[i].title.value = data_set.data[i].value
                /\ slices[i].angle_delta = Frac(data_set.data[i].value, total(data_set))
                /\ slices[i].from = IF i = 1 THEN out.angle_start ELSE slices[i - 1].to
                /\ slices[i].to = RAdd(slices[i].from, slices[i].angle_delta)
            /\ slices[n].to = RAdd(out.angle_start, One)
            /\ PointValues(data_set) = <<1, 1, 2>> =>
                    [i \in 1..n |-> slices[i].angle_delta]
                        = <<Frac(1, 4), Frac(1, 4), Frac(1, 2)>>

C5_Witness ==
    /\ out.op = "pie_chart"
    /\ PointValues(data_set) = <<1, 1, 2>>
    /\ out.slices[3].to = RAdd(out.angle_start, One)

\* C6: when the total is 0, PieChart.render gives every point an angle
\* delta of 0
C6_ZeroTotalZeroAngle ==
    (out.op = "pie_chart" /\ total(data_set) = 0) =>
        \A i \in 1..Len(out.slices) : out.slices[i].angle_delta = Zero

\* C7: LineChart puts point i of n at relative X i/(n-1) (0 when n < 2) and
\* relative Y value/max, mapped into the rect with Y flipped; [0, 5, 10] in
\* the rect (0,0,100,100) gives X [0, 50, 100] and Y [100, 50, 0]
C7_LinePoints ==
    out.op = "line_chart" =>
        LET n == Len(data_set.data)
            m == max_value(data_set)
            rect == out.chart.rect
            path == out.chart.traces[1].path
        IN  /\ Len(out.chart.traces) = 1
            /\ Len(path) = n
            /\ \A i \in 1..n :
                LET relx == IF n < 2 THEN Zero ELSE Frac(i - 1, n - 1)
                    rely == Frac(data_set.data[i].value, m)
                IN  /\ path[i].x = RAdd(rect.x, RMul(rect.width, relx))
                    /\ m # 0 => path[i].y =
                            RAdd(rect.y, RMul(rect.height, RSub(One, rely)))
            /\ (PointValues(data_set) = <<0, 5, 10>> /\ rect = TagRect(100, 100)) =>
                    /\ [i \in 1..n |-> path[i].x] = <<RInt(0), RInt(50), RInt(100)>>
                    /\ [i \in 1..n |-> path[i].y] = <<RInt(100), RInt(50), RInt(0)>>

C7_Witness ==
    /\ out.op = "line_chart"
    /\ PointValues(data_set) = <<0, 5, 10>>
    /\ out.chart.rect = TagRect(100, 100)
    /\ out.chart.traces[1].path[2] = SvgPoint(RInt(50), RInt(50))

----------------------------------------------------------------------------
(* Properties of the matrix views and of the charts drawn from them *)

ValidPairs(v) == (1..Len(records(v))) \X (1..Len(items(v)))

\* the totals of the records of a view
RecordTotals(v) == [r \in 1..Len(records(v)) |-> total(record_dataset(v, r))]

\* C8: StackedBarChart.render scales the segments of a bar by the record's
\* own total when normalized, and by the largest record total otherwise
C8_StackedBarScale ==
    (out.op = "stacked_bar_chart" /\ "bars" \in DOMAIN out.chart) =>
        \A r \in 1..Len(out.chart.bars) :
            LET scale == IF out.normalized THEN RecordTotals(view)[r]
                         ELSE max(RecordTotals(view))
                bar == out.chart.bars[r]
            IN  /\ bar.max = scale
                /\ \A i \in 1..Len(bar.rects) :
                        bar.rects[i].height =
                            RMul(Frac(call(view, r, i), scale), out.rect.height)

\* C9: view.transposed.transposed has the records, the items and the value
\* at every valid (record, item) pair of view, for each of the four views
C9_TransposedTwice ==
    LET twice == transposed(transposed(view))
    IN  /\ records(twice) = records(view)
        /\ items(twice) = items(view)
        /\ \A p \in ValidPairs(view) : call(twice, p[1], p[2]) = call(view, p[1], p[2])

C9_Witness ==
    /\ out.op = "transposed"
    /\ view.kind = "TransposedMatrixView"
    /\ Len(records(view)) = 2
    /\ Len(items(view)) = 1
    /\ call(view, 1, 1) # call(view, 2, 1)

\* C10: the row-major view returns values[r][i] and the transposed view
\* values[i][r]; the records of the transposed view are the columns of the
\* matrix and its items are the rows
C10_ValueAt ==
    /\ view.kind = "MatrixView" =>
            /\ records(view) = view.data_matrix.rows
            /\ items(view) = view.data_matrix.columns
            /\ out.op = "call" =>
                    out.value = view.data_matrix.values[out.record_id][out.item_id]
    /\ view.kind = "TransposedMatrixView" =>
            /\ records(view) = view.data_matrix.columns
            /\ items(view) = view.data_matrix.rows
            /\ out.op = "call" =>
                    out.value = view.data_matrix.values[out.item_id][out.record_id]

C10_Witness ==
    /\ out.op = "call"
    /\ view.kind = "TransposedMatrixView"
    /\ out.record_id = 2
    /\ out.item_id = 1
    /\ Len(view.data_matrix.rows) = 2
    /\ out.value = view.data_matrix.values[1][2]
    /\ out.value # view.data_matrix.values[2][1]

\* C14: DataSet.append of a point whose value is negative fails with
\* InvalidValue and leaves the DataSet as it was
C14_NegativeAppendRejected ==
    [][(out'.op = "append" /\ out'.point.value < 0) =>
            /\ "error" \in DOMAIN out'
            /\ data_set' = data_set]_vars

----------------------------------------------------------------------------
(* Properties of single calls *)

ChartClasses == {"PieChart", "LineChart", "StackedBarChart", "StackedLineChart"}

\* C13: constructing a StackedBarChart with (rect, padding, normalized,
\* separation) succeeds, and its drawing rect is the given rect shrunk by the
\* padding on every side
C13_StackedBarChartBuilt ==
    out.op = "StackedBarChart" =>
        /\ "error" \notin DOMAIN out.chart
        /\ out.chart.rect = ChartBase(input.rect, input.padding, input.normalized).rect

\* the value rows are one per row name, each with one entry per column name
WellShaped(rows, columns, values) ==
    /\ Len(values) = Len(rows)
    /\ \A r \in 1..Len(values) : Len(values[r]) = Len(columns)

\* C15: constructing a DataMatrix whose value rows do not match its row and
\* column names fails at construction time; no such matrix is accepted
C15_IllShapedMatrixRejected ==
    (out.op = "DataMatrix" /\ ~WellShaped(input.rows, input.columns, input.values)) =>
        "error" \in DOMAIN out

\* C16: the drawing rect of a constructed chart never has a negative width
\* or height; a padding of at least half the size gives the size zero
C16_RectNeverNegative ==
    (out.op \in ChartClasses /\ "error" \notin DOMAIN out.chart) =>
        /\ RLe(Zero, out.chart.rect.width)
        /\ RLe(Zero, out.chart.rect.height)
        /\ RLe(input.rect.width, RInt(2 * input.padding)) => out.chart.rect.width = Zero
        /\ RLe(input.rect.height, RInt(2 * input.padding)) => out.chart.rect.height = Zero

\* every closing tag closes the element opened last, and none stays open
RECURSIVE Nested(_, _)
Nested(tokens, opened) ==
    IF Len(tokens) = 0 THEN Len(opened) = 0
    ELSE LET tag == Head(tokens)
         IN  CASE tag.t = "open" -> Nested(Tail(tokens), <<tag.name>> \o opened)
               [] tag.t = "close" -> /\ Len(opened) > 0
                                     /\ Head(opened) = tag.name
                                     /\ Nested(Tail(tokens), Tail(opened))
               [] OTHER -> Nested(Tail(tokens), opened)

\* C17: in the output of render_element, with or without a title and a
\* link, every opened element is closed, in properly nested order
C17_WellFormedElement ==
    out.op = "render_element" => Nested(out.tokens, <<>>)

\* the layers of attributes, from the base to the overrides
Layers(self, metadata, kwargs) ==
    LET named == {k \in {"class", "id"} :
                    /\ metadata.id # ""
                    /\ (IF k = "class" THEN self.class_prefix ELSE self.id_prefix) # None}
    IN  <<self.attrs,
          IF IsDataPoint(metadata)
          THEN [k \in {"data-value", "data-name"} |->
                    IF k = "data-value" THEN ToString(metadata.value) ELSE metadata.label]
          ELSE EmptyDict,
          [k \in named |-> (IF k = "class" THEN self.class_prefix ELSE self.id_prefix)
                                \o metadata.id],
          kwargs>>

\* the value of key k in the last layer that defines it
Resolved(layers, k) ==
    LET defining == {n \in DOMAIN layers : k \in DOMAIN layers[n]}
        last == CHOOSE n \in defining : \A m \in defining : m <= n
    IN  layers[last][k]

\* C19: attributes gives each key the value of the last layer that defines
\* it (base, data-value/data-name, class/id, overrides); a key whose
\* resolved value is None is absent
C19_AttributeLayers ==
    out.op = "attributes" =>
        LET layers == Layers(input.self, input.metadata, input.kwargs)
            keys == UNION {DOMAIN layers[n] : n \in DOMAIN layers}
        IN  /\ DOMAIN out.attrs = {k \in keys : Resolved(layers, k) # None}
            /\ \A k \in DOMAIN out.attrs : out.attrs[k] = Resolved(layers, k)

\* an override replaced the class built from the prefix, and a None in the
\* base attributes removed a key
C19_Witness ==
    /\ out.op = "attributes"
    /\ input.metadata.id # ""
    /\ input.self.class_prefix # None
    /\ "r" \in DOMAIN input.self.attrs
    /\ input.self.attrs["r"] = None
    /\ "class" \in DOMAIN input.kwargs
    /\ out.attrs["class"] = "over"
    /\ "r" \notin DOMAIN out.attrs

\* the point lies within the rect
Inside(rect, point) ==
    /\ RLe(rect.x, point.x)
    /\ RLe(point.x, RAdd(rect.x, rect.width))
    /\ RLe(rect.y, point.y)
    /\ RLe(point.y, RAdd(rect.y, rect.height))

\* the relative point a call maps: the one given to point_rel2abs, or the
\* one _value_point builds from percent, index and size
RelPoint ==
    IF input.fn = "point_rel2abs" THEN input.point
    ELSE SvgPoint(IF input.size = 1 THEN Zero ELSE Frac(input.index, input.size - 1),
                  input.percent)

\* C20: the mapping gives absX = rect.x + rect.width*x and
\* absY = rect.y + rect.height*(1 - y); a relative point in the unit square
\* lands inside the padded rect, y = 0 on its bottom edge and y = 1 on its
\* top edge; the points of _value_point come through the same mapping
C20_RelativeToAbsolute ==
    out.op \in {"point_rel2abs", "_value_point"} =>
        LET rect == out.rect
            rel == RelPoint
        IN  /\ out.point.x = RAdd(rect.x, RMul(rect.width, rel.x))
            /\ out.point.y = RAdd(rect.y, RMul(rect.height, RSub(One, rel.y)))
            /\ (InUnitRange(rel.x) /\ InUnitRange(rel.y)) => Inside(rect, out.point)
            /\ rel.y = Zero => out.point.y = RAdd(rect.y, rect.height)
            /\ rel.y = One => out.point.y = rect.y

----------------------------------------------------------------------------
(* Properties of the renders of a view *)

RenderOps == {"pie_chart", "line_chart", "stacked_bar_chart", "stacked_line_chart"}

\* C11: rendering any chart with an empty DataSet, or with a view that has
\* no records or no items, raises no error and emits zero chart elements
C11_EmptyRendersNothing ==
    (out.op \in RenderOps /\ (Len(records(view)) = 0 \/ Len(items(view)) = 0)) =>
        /\ "error" \notin DOMAIN out.chart
        /\ out.elements = 0

\* C12: StackedBarChart.render and StackedLineChart.render of a well-shaped
\* view of non-negative values complete without raising, records of sum 0
\* and all-zero matrices included, normalized or not
C12_StackedRenderTotal ==
    (/\ out.op \in {"stacked_bar_chart", "stacked_line_chart"}
     /\ Len(records(view)) > 0
     /\ Len(items(view)) > 0) =>
        "error" \notin DOMAIN out.chart

\* C18: a render of any chart leaves the DataSet, the view and the
\* RenderOptions as they were, and the same render of the same input
\* returns the same output again
C18_RenderingIsPure ==
    [][out'.op \in RenderOps =>
            /\ data_set' = data_set
            /\ view' = view
            /\ options' = options
            /\ (out.op = out'.op /\ out.normalized = out'.normalized) => out' = out]_vars

\* a line chart was drawn with options that carry prefixes and an
\* attribute: the circle took the attribute, the g dropped it (r=None)
C18_Witness ==
    /\ out.op = "line_chart"
    /\ "error" \notin DOMAIN out.chart
    /\ options = RenderOptions("c_", "i_", "r" :> "5")
    /\ Len(out.attrs) > 2
    /\ "data-value" \in DOMAIN out.attrs[3]
    /\ out.attrs[3]["r"] = "5"
    /\ "r" \notin DOMAIN out.attrs[1]

\* the largest value of the view, 0 when it has none
LargestValue(v) ==
    LET cells == {call(v, r, i) : r \in 1..Len(records(v)), i \in 1..Len(items(v))}
    IN  IF cells = {} THEN 0 ELSE CHOOSE m \in cells : \A c \in cells : c <= m

\* the height at which a value is drawn when scale is the maximum: the
\* top of the rect for the maximum, and for every value when scale is 0
DrawnAt(rect, value, scale) ==
    RAdd(rect.y, RMul(rect.height,
                      RSub(One, IF scale = 0 THEN One ELSE Frac(value, scale))))

\* C21 as stated: LineChart.render scales the line of each item by that
\* item's own maximum, so the largest point of every item is at the top of
\* the rect
C21_OwnMaximum ==
    (out.op = "line_chart" /\ "error" \notin DOMAIN out.chart) =>
        \A k \in 1..Len(out.chart.traces) :
            LET it_id == Len(items(view)) + 1 - k
                ds == item_dataset(view, it_id)
            IN  /\ \A i \in 1..Len(ds.data) :
                        out.chart.traces[k].path[i].y
                            = DrawnAt(out.chart.rect, ds.data[i].value, max_value(ds))
                /\ Len(ds.data) > 0 =>
                        \E i \in 1..Len(ds.data) :
                            out.chart.traces[k].path[i].y = out.chart.rect.y

\* C21, amended: LineChart.render scales the line of every item by one
\* shared maximum, the largest value of the whole view; the lines are
\* drawn last item first, one point per record
C21_SharedMaximum ==
    (out.op = "line_chart" /\ "error" \notin DOMAIN out.chart) =>
        /\ Len(out.chart.traces) = Len(items(view))
        /\ \A k \in 1..Len(out.chart.traces) :
            LET it_id == Len(items(view)) + 1 - k
            IN  /\ out.chart.traces[k].label = items(view)[it_id]
                /\ Len(out.chart.traces[k].path) = Len(records(view))
                /\ \A r \in 1..Len(records(view)) :
                        out.chart.traces[k].path[r].y
                            = DrawnAt(out.chart.rect, call(view, r, it_id),
                                      LargestValue(view))

\* a line chart of two items over two records was drawn, and the largest
\* value of one item is below the largest value of the view
C21_Witness ==
    /\ out.op = "line_chart"
    /\ "error" \notin DOMAIN out.chart
    /\ Len(items(view)) = 2
    /\ Len(records(view)) = 2
    /\ \E it_id \in 1..2 :
            max_value(item_dataset(view, it_id)) < LargestValue(view)

\* C22: for n >= 1 records and separation s >= 0 every bar has the relative
\* width 1/(n + n*s) and bar i the relative x = gap/2 + (gap + width)*i with
\* gap = width*s: the bars do not overlap, consecutive bars are one gap
\* apart, the margins are gap/2 each, and bars and gaps fill [0, 1]
C22_BarsFillTheSpan ==
    out.op = "_subrect" =>
        LET n == input.size
            s == input.separation
            width == RDiv(One, RAdd(RInt(n), RMul(RInt(n), s)))
            gap == RMul(width, s)
            bar == out.rects
            right(i) == RAdd(bar[i].x, bar[i].width)
        IN  /\ Len(bar) = n
            /\ \A i \in 1..n :
                    /\ bar[i].width = width
                    /\ bar[i].x = RAdd(RDiv(gap, RInt(2)),
                                       RMul(RAdd(gap, width), RInt(i - 1)))
                    /\ bar[i].y = Zero
                    /\ bar[i].height = One
            /\ \A i \in 1..(n - 1) :
                    /\ RLe(right(i), bar[i + 1].x)
                    /\ RSub(bar[i + 1].x, right(i)) = gap
            /\ bar[1].x = RDiv(gap, RInt(2))
            /\ RSub(One, right(n)) = RDiv(gap, RInt(2))
            /\ RAdd(RMul(RInt(n), width), RMul(RInt(n), gap)) = One

\* the sub-rects of three bars with a separation of one half were computed
C22_Witness ==
    /\ out.op = "_subrect"
    /\ input.size = 3
    /\ input.separation = Half
    /\ out.rects[2].x = Frac(7, 18)

----------------------------------------------------------------------------
(* Properties of the stacked charts *)

\* C23: within one stacked bar the segments are stacked bottom-up in input
\* order: the bottom edge of the first is the bottom of the drawing rect,
\* the bottom edge of each following one is the top edge of the one before,
\* and the height of each is value/max of the rect height
C23_SegmentsStacked ==
    (out.op = "stacked_bar_chart" /\ "bars" \in DOMAIN out.chart) =>
        \A r \in 1..Len(out.chart.bars) :
            LET ds == record_dataset(view, r)
                bar == out.chart.bars[r]
                bottom(i) == RAdd(bar.rects[i].y, bar.rects[i].height)
            IN  /\ Len(bar.rects) = Len(ds.data)
                /\ Len(bar.rects) > 0 =>
                        bottom(1) = RAdd(out.rect.y, out.rect.height)
                /\ \A i \in 2..Len(bar.rects) : bottom(i) = bar.rects[i - 1].y
                /\ \A i \in 1..Len(bar.rects) :
                        /\ bar.rects[i].title.label = ds.data[i].label
                        /\ bar.rects[i].height =
                                RMul(Frac(ds.data[i].value, bar.max), out.rect.height)

\* a bar of two segments of positive height was drawn
C23_Witness ==
    /\ out.op = "stacked_bar_chart"
    /\ "bars" \in DOMAIN out.chart
    /\ Len(out.chart.bars) > 0
    /\ Len(out.chart.bars[1].rects) = 2
    /\ RLt(Zero, out.chart.bars[1].rects[1].height)
    /\ RLt(Zero, out.chart.bars[1].rects[2].height)

RECURSIVE RSum(_)
RSum(s) == IF Len(s) = 0 THEN Zero ELSE RAdd(Head(s), RSum(Tail(s)))

\* C24: for a matrix of non-negative values with a positive record total,
\* the stacked height of every bar that StackedBarChart.render draws is at
\* most the height of the rect, and with normalized it is the full height
\* for every record of positive total
C24_BarsWithinTheRect ==
    (/\ out.op = "stacked_bar_chart"
     /\ \E r \in 1..Len(records(view)) : RecordTotals(view)[r] > 0) =>
        /\ "bars" \in DOMAIN out.chart
        /\ \A r \in 1..Len(out.chart.bars) :
            LET bar == out.chart.bars[r]
                stacked == RSum([i \in 1..Len(bar.rects) |-> bar.rects[i].height])
            IN  /\ RLe(stacked, out.rect.height)
                /\ (out.normalized /\ RecordTotals(view)[r] > 0) =>
                        stacked = out.rect.height

\* the sum of the values of the first n items of record r
SumBefore(v, r, n) == IF n = 0 THEN 0 ELSE sum([j \in 1..n |-> call(v, r, j)])

\* the Y scale of record r: its own total when normalized, otherwise the
\* largest record total
Scale(v, norm, r) ==
    IF norm THEN RecordTotals(v)[r] ELSE max(RecordTotals(v))

\* the point of a level of record r in the padded rect of the line chart
LevelPoint(v, norm, level, r) ==
    LET rect == ChartBase(RenderRect, 10, norm).rect
        size == Len(records(v))
    IN  SvgPoint(RAdd(rect.x, RMul(rect.width,
                        IF size < 2 THEN Zero ELSE Frac(r - 1, size - 1))),
                 RAdd(rect.y, RMul(rect.height,
                        RSub(One, Frac(level, Scale(v, norm, r))))))

\* C25: in StackedLineChart.render the band of item k at record r goes from
\* the sum of the values of the items before k to that sum plus the value of
\* k, both divided by the scale; the lower boundary of an item is the upper
\* boundary of the item before it; the path visits the upper boundaries by
\* ascending record and then the lower boundaries by descending record
C25_StackedBands ==
    (out.op = "stacked_line_chart" /\ "paths" \in DOMAIN out.chart) =>
        LET n == Len(items(view))
            size == Len(records(view))
            path(it_id) == out.chart.paths[n + 1 - it_id]
        IN  /\ Len(out.chart.paths) = n
            /\ \A it_id \in 1..n :
                /\ path(it_id).label = items(view)[it_id]
                /\ Len(path(it_id).upper) = size
                /\ Len(path(it_id).lower) = size
                /\ path(it_id).start =
                        LevelPoint(view, out.normalized, SumBefore(view, 1, it_id - 1), 1)
                /\ \A r \in 1..size :
                    /\ path(it_id).upper[r] =
                            LevelPoint(view, out.normalized, SumBefore(view, r, it_id), r)
                    /\ path(it_id).lower[size + 1 - r] =
                            LevelPoint(view, out.normalized, SumBefore(view, r, it_id - 1), r)
                    /\ it_id > 1 =>
                            path(it_id).lower[size + 1 - r] = path(it_id - 1).upper[r]

\* a stacked line chart of two items over two records was drawn, and the
\* second item has a band above a first item that is not empty
C25_Witness ==
    /\ out.op = "stacked_line_chart"
    /\ "paths" \in DOMAIN out.chart
    /\ Len(items(view)) = 2
    /\ Len(records(view)) = 2
    /\ call(view, 2, 1) > 0
    /\ call(view, 2, 2) > 0
    /\ out.chart.paths[1].lower[1] = out.chart.paths[2].upper[2]
    /\ out.chart.paths[1].lower[1] # out.chart.paths[1].upper[2]

\* C26: for the same view and the same normalized flag StackedBarChart
\* takes for every record the Y scale that StackedLineChart takes: the
\* total of the record when normalized, otherwise the largest record total
C26_SameScale ==
    (out.op = "stacked_bar_chart" /\ "bars" \in DOMAIN out.chart) =>
        \A r \in 1..Len(out.chart.bars) :
            /\ out.chart.bars[r].max
                    = max_for(StackedLineChart(RenderRect, 10, out.normalized), view, r)
            /\ out.chart.bars[r].max = Scale(view, out.normalized, r)

----------------------------------------------------------------------------
(* Properties of the DataSets of a view *)

\* C27: record_dataset(k) of a view and item_dataset(k) of view.transposed
\* hold the same values with the same MetaData of the points and of the
\* DataSet; point j of record_dataset(k) has the value at (k, j) and the
\* MetaData of item j
C27_RecordIsTransposedItem ==
    out.op = "record_dataset" =>
        LET v == input.view
            k == input.index
        IN  /\ out.data_set = out.transposed_item
            /\ out.data_set.label = records(v)[k]
            /\ Len(out.data_set.data) = Len(items(v))
            /\ \A j \in 1..Len(items(v)) :
                    /\ out.data_set.data[j].value = call(v, k, j)
                    /\ out.data_set.data[j].label = items(v)[j]

\* the DataSet of the second row of a matrix of two columns was taken
C27_Witness ==
    /\ out.op = "record_dataset"
    /\ input.view.kind = "MatrixView"
    /\ input.index = 2
    /\ Len(out.data_set.data) = 2
    /\ out.data_set.data[1].value # out.data_set.data[2].value

----------------------------------------------------------------------------
(* Properties of the pages *)

Occurrences(s, x) == Cardinality({i \in 1..Len(s) : s[i] = x})

\* C29: after any sequence of page constructions the resources a page sees
\* hold the SVG style sheet at most once, and constructing a page of one
\* class leaves the resources of the other classes as they were
C29_ResourcesPerPage ==
    [][out'.op = "view" =>
            /\ Occurrences(out'.resources, svg_css_resource) <= 1
            /\ \A cls \in PageClasses \ {out'.cls} :
                    class_resources(cls)' = class_resources(cls)]_vars

----------------------------------------------------------------------------
(* Properties of the views of the API *)

\* the outcome is the error response of the class with the code and message
IsError(outcome, cls, code, msg) ==
    /\ "response" \in DOMAIN outcome
    /\ outcome.response.cls = cls
    /\ outcome.response.status = code
    /\ outcome.response.content = [error |-> msg]

\* the outcome of a request whose type is known and whose method is let
\* through: the result wrapped in the requested type, 404 for a not-found
\* of the callback, 500 or the exception itself for any other exception
Answered(outcome) ==
    LET requested == IF input.type = "json" THEN "JsonResponse" ELSE "PonResponse"
    IN  /\ outcome.called
        /\ input.callback = "returns" =>
                /\ "response" \in DOMAIN outcome
                /\ outcome.response = [cls |-> requested, status |-> 200,
                                       pretty |-> input.pretty, content |-> "result"]
        /\ input.callback = "Http404" => IsError(outcome, requested, 404, "Not Found")
        /\ (input.callback = "Exception" /\ ~input.debug) =>
                IsError(outcome, requested, 500, "Internal Server Error")
        /\ (input.callback = "Exception" /\ input.debug) =>
                /\ "response" \notin DOMAIN outcome
                /\ outcome.raised = "Exception"

\* C30 as stated: an unknown type gives 404 "Unknown file type" in the
\* default response type; otherwise a method outside the allowed set gives
\* 405 without a call of the callback; otherwise the request is answered
C30_OutcomeOrder ==
    out.op = "view" =>
        LET known == input.type \in {"json", "py"}
            requested == IF input.type = "json" THEN "JsonResponse" ELSE "PonResponse"
        IN  /\ ~known =>
                /\ IsError(out.outcome, "JsonResponse", 404, "Unknown file type")
                /\ ~out.outcome.called
            /\ (known /\ input.method \notin input.methods) =>
                /\ IsError(out.outcome, requested, 405, "Method Not Allowed")
                /\ ~out.outcome.called
            /\ (known /\ input.method \in input.methods) => Answered(out.outcome)

\* C30, amended: as stated, but an empty set of methods lets every method
\* through: 405 is given only when the set is not empty and the method is
\* outside it
C30_OutcomeOrderEmptySetAllows ==
    out.op = "view" =>
        LET known == input.type \in {"json", "py"}
            requested == IF input.type = "json" THEN "JsonResponse" ELSE "PonResponse"
            let_through == input.methods = {} \/ input.method \in input.methods
        IN  /\ ~known =>
                /\ IsError(out.outcome, "JsonResponse", 404, "Unknown file type")
                /\ ~out.outcome.called
            /\ (known /\ ~let_through) =>
                /\ IsError(out.outcome, requested, 405, "Method Not Allowed")
                /\ ~out.outcome.called
            /\ (known /\ let_through) => Answered(out.outcome)

\* a POST to a view with an empty set of methods was answered by the
\* callback, in the py response type
C30_Witness ==
    /\ out.op = "view"
    /\ input.methods = {}
    /\ input.method = "POST"
    /\ input.type = "py"
    /\ input.callback = "returns"
    /\ out.outcome.called
    /\ out.outcome.response.status = 200
    /\ out.outcome.response.cls = "PonResponse"

====
